---------------------------- MODULE Spec2Model ----------------------------
(***************************************************************************)
(* The WhatsApp connector: the one-shot history sync (sync-history.ts),    *)
(* the long-running listener (listen.ts), the row mappers                  *)
(* (baileys-helpers) and the Postgres upserts (db).                        *)
(*                                                                         *)
(* Time is in milliseconds.  Node runs one callback at a time; an async    *)
(* handler runs from one `await db.query` to the next without              *)
(* interruption, and pg.Client runs the queries of one connection in the   *)
(* order they were issued.                                                 *)
(***************************************************************************)
EXTENDS Integers, Sequences, FiniteSets, TLC

VARIABLES
    mode,        \* "sync" (sync-history.ts) or "listen" (listen.ts)
    exitCode,    \* Running, or the status process.exit was called with
    exitCause,   \* which statement ended the process (history)
    conn,        \* state of the current socket
    connects,    \* number of connect() calls so far
    now,         \* Date.now()
    timers,      \* pending setTimeout callbacks, in the order they were set
    idleTimer,   \* sync: the handle kept in idleTimer (its due time) or NoTimer
    batchCount,  \* sync: batchCount
    chatIdCache, \* the Map jid -> chats.id
    chats,       \* table chats
    contacts,    \* table contacts
    messages,    \* table messages
    tasks,       \* async handlers suspended at `await db.query`, in query order
    hist         \* history of the run, read by the properties only

vars == <<mode, exitCode, exitCause, conn, connects, now, timers, idleTimer,
          batchCount, chatIdCache, chats, contacts, messages, tasks, hist>>

-----------------------------------------------------------------------------
(* Values *)

\* null / undefined of a string-valued field
NULL == "<null>"
\* null / undefined of an object-valued field (message content, jsonb)
NoObj == [none |-> TRUE]
\* absent numeric field
NoNum == -1
\* exitCode while the process runs
Running == -1
\* idleTimer = null
NoTimer == -1

\* JavaScript truthiness of a string-or-null value
Truthy(s) == s # NULL /\ s # ""

\* a ?? b
Nullish(a, b) == IF a = NULL THEN b ELSE a

\* COALESCE with its arguments the other way round: the stored value wins
CoalesceKeepOld(a, b) == IF b # NULL THEN b ELSE a

\* SQL COALESCE(a, b)
Coalesce(a, b) == IF a # NULL THEN a ELSE b

\* SQL COALESCE(a, b) on a jsonb column
CoalesceObj(a, b) == IF a # NoObj THEN a ELSE b

-----------------------------------------------------------------------------
(* Program constants *)

IDLE_TIMEOUT_MS == 30000
RECONNECT_DELAY_MS == 5000
ONE_DAY_MS == 86400000

\* DisconnectReason values the handlers tell apart; any other status code
\* (connection lost, timed out, ...) takes the last branch
LoggedOut == "loggedOut"
RestartRequired == "restartRequired"
ConnectionLost == "connectionLost"
DisconnectReasons == {LoggedOut, RestartRequired, ConnectionLost}

-----------------------------------------------------------------------------
(* JIDs of the model, and the string tests the code applies to them *)

LidJid == "abc@lid"
PnJid == "31612345678@s.whatsapp.net"
PnJid2 == "31687654321@s.whatsapp.net"
GroupJid == "120363@g.us"

\* the part of a jid after "@" ("" when there is none)
JidServer(j) ==
    CASE j \in {PnJid, PnJid2} -> "s.whatsapp.net"
      [] j = LidJid -> "lid"
      [] j = GroupJid -> "g.us"
      [] OTHER -> ""

\* the part of a jid before "@"
JidUser(j) ==
    CASE j = PnJid -> "31612345678"
      [] j = PnJid2 -> "31687654321"
      [] j = LidJid -> "abc"
      [] j = GroupJid -> "120363"
      [] OTHER -> j

\* /^\d+$/ on the user part
AllDigits(u) == u \in {"31612345678", "31687654321", "120363"}

\* phoneFromJid: /^(\d+)@s\.whatsapp\.net$/
phoneFromJid(jid) ==
    IF ~Truthy(jid) THEN NULL
    ELSE IF JidServer(jid) = "s.whatsapp.net" /\ AllDigits(JidUser(jid))
         THEN JidUser(jid)
         ELSE NULL

\* pn.replace("@s.whatsapp.net", "")
StripPnSuffix(pn) == IF JidServer(pn) = "s.whatsapp.net" THEN JidUser(pn) ELSE pn


-----------------------------------------------------------------------------
(* baileys-helpers: message content *)

\* msg.f is present (and truthy)
Has(msg, f) ==
    /\ f \in DOMAIN msg
    /\ (f = "conversation" => Truthy(msg[f]))

\* msg.f?.g ?? null for an object-valued content field f
Sub(msg, f, g) ==
    IF f \in DOMAIN msg /\ g \in DOMAIN msg[f] THEN msg[f][g] ELSE NULL

\* msg.viewOnceMessage?.message ?? msg.viewOnceMessageV2?.message
ViewOnceInner(msg) ==
    IF "viewOnceMessage" \in DOMAIN msg /\ msg["viewOnceMessage"].message # NoObj
    THEN msg["viewOnceMessage"].message
    ELSE IF "viewOnceMessageV2" \in DOMAIN msg
         THEN msg["viewOnceMessageV2"].message
         ELSE NoObj

\* extractMessageType without its view-once branch
extractMessageTypeNoViewOnce(msg) ==
    IF msg = NoObj THEN "unknown"
    ELSE IF Has(msg, "conversation") THEN "text"
    ELSE IF Has(msg, "extendedTextMessage") THEN "text"
    ELSE IF Has(msg, "imageMessage") THEN "image"
    ELSE IF Has(msg, "videoMessage") THEN "video"
    ELSE IF Has(msg, "audioMessage") THEN "audio"
    ELSE IF Has(msg, "documentMessage") THEN "document"
    ELSE IF Has(msg, "stickerMessage") THEN "sticker"
    ELSE IF Has(msg, "contactMessage") THEN "contact"
    ELSE IF Has(msg, "contactsArrayMessage") THEN "contact"
    ELSE IF Has(msg, "locationMessage") THEN "location"
    ELSE IF Has(msg, "liveLocationMessage") THEN "location"
    ELSE IF Has(msg, "reactionMessage") THEN "reaction"
    ELSE IF Has(msg, "pollCreationMessage") \/ Has(msg, "pollCreationMessageV3")
         THEN "poll"
    ELSE "unknown"

RECURSIVE extractMessageType(_)
extractMessageType(msg) ==
    IF msg = NoObj THEN "unknown"
    ELSE IF Has(msg, "conversation") THEN "text"
    ELSE IF Has(msg, "extendedTextMessage") THEN "text"
    ELSE IF Has(msg, "imageMessage") THEN "image"
    ELSE IF Has(msg, "videoMessage") THEN "video"
    ELSE IF Has(msg, "audioMessage") THEN "audio"
    ELSE IF Has(msg, "documentMessage") THEN "document"
    ELSE IF Has(msg, "stickerMessage") THEN "sticker"
    ELSE IF Has(msg, "contactMessage") THEN "contact"
    ELSE IF Has(msg, "contactsArrayMessage") THEN "contact"
    ELSE IF Has(msg, "locationMessage") THEN "location"
    ELSE IF Has(msg, "liveLocationMessage") THEN "location"
    ELSE IF Has(msg, "reactionMessage") THEN "reaction"
    ELSE IF Has(msg, "pollCreationMessage") \/ Has(msg, "pollCreationMessageV3")
         THEN "poll"
    ELSE IF Has(msg, "viewOnceMessage") \/ Has(msg, "viewOnceMessageV2")
         THEN extractMessageType(ViewOnceInner(msg))
    ELSE "unknown"

extractBodyText(msg) ==
    IF msg = NoObj THEN NULL
    ELSE Nullish(IF "conversation" \in DOMAIN msg THEN msg["conversation"] ELSE NULL,
         Nullish(Sub(msg, "extendedTextMessage", "text"),
         Nullish(Sub(msg, "imageMessage", "caption"),
         Nullish(Sub(msg, "videoMessage", "caption"),
                 Sub(msg, "documentMessage", "caption")))))

-----------------------------------------------------------------------------
(* baileys-helpers: rows *)

\* c: [id, name, displayName, pnJid], each a string or NULL
chatToRow(c) ==
    LET jid == Nullish(c.id, "")
        pn  == Nullish(c.pnJid,
                       IF JidServer(jid) = "s.whatsapp.net" THEN jid ELSE NULL)
    IN [jid      |-> jid,
        jid_pn   |-> pn,
        name     |-> Nullish(c.name, c.displayName),
        is_group |-> (JidServer(jid) = "g.us")]

\* chatToRow({ id: jid })
MinimalChat(jid) == [id |-> jid, name |-> NULL, displayName |-> NULL, pnJid |-> NULL]

\* contact: [id, phoneNumber, lid, name, notify, verifiedName]
contactToRow(contact) ==
    LET rawId == Nullish(contact.id, "")
    IN [wa_id        |-> rawId,
        phone_number |-> Nullish(contact.phoneNumber, phoneFromJid(rawId)),
        lid          |-> Nullish(contact.lid,
                                 IF JidServer(rawId) = "lid" THEN rawId ELSE NULL),
        push_name    |-> Nullish(contact.name,
                                 Nullish(contact.notify, contact.verifiedName))]

\* the clamp with >= for >: an instant exactly one day ahead is replaced too
RowTimestampFromOneDay(ts, nowMs) ==
    IF ts # NoNum /\ ts # 0
    THEN IF ts * 1000 >= nowMs + ONE_DAY_MS THEN nowMs ELSE ts * 1000
    ELSE nowMs

\* the timestamp messageToRow stores, in ms; ts is messageTimestamp in seconds
RowTimestamp(ts, nowMs) ==
    IF ts # NoNum /\ ts # 0
    THEN LET candidate == ts * 1000
             oneDayFromNow == nowMs + ONE_DAY_MS
         IN IF candidate > oneDayFromNow THEN nowMs ELSE candidate
    ELSE nowMs

\* msg: [key, messageTimestamp, message]; key: [remoteJid, id, participant,
\* participantAlt, remoteJidAlt, fromMe]
messageToRow(chatId, key, msg, fromMe, nowMs) ==
    LET isGroup  == key.remoteJid # NULL /\ JidServer(key.remoteJid) = "g.us"
        phoneJid == IF isGroup THEN key.participant ELSE key.remoteJid
        content  == IF msg.message # NoObj THEN msg.message ELSE msg
    IN [chat_id         |-> chatId,
        wa_message_id   |-> Nullish(key.id, ""),
        remote_jid      |-> Nullish(key.remoteJid, ""),
        participant     |-> key.participant,
        participant_alt |-> key.participantAlt,
        remote_jid_alt  |-> key.remoteJidAlt,
        from_me         |-> fromMe,
        timestamp       |-> RowTimestamp(msg.messageTimestamp, nowMs),
        message_type    |-> extractMessageType(content),
        body_text       |-> extractBodyText(content),
        phone_number    |-> phoneFromJid(phoneJid),
        metadata_json   |-> msg.message]

-----------------------------------------------------------------------------
(* db: the tables and the upserts *)

\* the next value of a table's id sequence
NextId(tbl) == Cardinality(tbl) + 1

ChatByJid(tbl, jid) == {r \in tbl : r.jid = jid}

\* the INSERT without its ON CONFLICT (jid) clause, on a table with no
\* unique key: every call adds a row
upsertChatInsertOnly(tbl, row) ==
    tbl \cup {[id |-> NextId(tbl), jid |-> row.jid, jid_pn |-> row.jid_pn,
               name |-> row.name, is_group |-> row.is_group]}

\* INSERT INTO chats ... ON CONFLICT (jid) DO UPDATE ...: the table afterwards
upsertChat(tbl, row) ==
    IF ChatByJid(tbl, row.jid) = {}
    THEN tbl \cup {[id |-> NextId(tbl), jid |-> row.jid, jid_pn |-> row.jid_pn,
                    name |-> row.name, is_group |-> row.is_group]}
    ELSE {IF r.jid = row.jid
          THEN [r EXCEPT !.jid_pn = Coalesce(row.jid_pn, r.jid_pn),
                         !.name = Coalesce(row.name, r.name),
                         !.is_group = row.is_group]
          ELSE r : r \in tbl}

\* the id of the row inserted last, whichever row the upsert touched
ReturnedLastId(tbl, jid) == Cardinality(tbl)

\* ... RETURNING id, read from the table after the upsert
ReturnedChatId(tbl, jid) == (CHOOSE r \in ChatByJid(tbl, jid) : TRUE).id

ContactByWaId(tbl, waId) == {r \in tbl : r.wa_id = waId}

\* INSERT INTO contacts ... ON CONFLICT (wa_id) DO UPDATE ...
upsertContact(tbl, row) ==
    IF ContactByWaId(tbl, row.wa_id) = {}
    THEN tbl \cup {[id |-> NextId(tbl), wa_id |-> row.wa_id,
                    phone_number |-> row.phone_number, lid |-> row.lid,
                    push_name |-> row.push_name]}
    ELSE {IF r.wa_id = row.wa_id
          THEN [r EXCEPT !.phone_number = Coalesce(row.phone_number, r.phone_number),
                         !.lid = Coalesce(row.lid, r.lid),
                         !.push_name = Coalesce(row.push_name, r.push_name)]
          ELSE r : r \in tbl}

MessageByKey(tbl, chatId, waMessageId) ==
    {r \in tbl : r.chat_id = chatId /\ r.wa_message_id = waMessageId}

\* the row INSERT INTO messages adds when there is no conflict
InsertedMessage(tbl, row) ==
    [id |-> NextId(tbl), chat_id |-> row.chat_id,
     wa_message_id |-> row.wa_message_id, remote_jid |-> row.remote_jid,
     participant |-> row.participant, participant_alt |-> row.participant_alt,
     remote_jid_alt |-> row.remote_jid_alt, from_me |-> row.from_me,
     timestamp |-> row.timestamp, message_type |-> row.message_type,
     body_text |-> row.body_text, phone_number |-> row.phone_number,
     metadata_json |-> row.metadata_json]

\* DO UPDATE SET with COALESCE on all six columns
MergedMessageCoalesceAll(r, row) ==
    [r EXCEPT !.participant = Coalesce(row.participant, r.participant),
              !.participant_alt = Coalesce(row.participant_alt, r.participant_alt),
              !.remote_jid_alt = Coalesce(row.remote_jid_alt, r.remote_jid_alt),
              !.body_text = Coalesce(row.body_text, r.body_text),
              !.phone_number = Coalesce(row.phone_number, r.phone_number),
              !.metadata_json = CoalesceObj(row.metadata_json, r.metadata_json)]

\* DO UPDATE SET of every column of the new row
MergedMessageReplace(r, row) ==
    [r EXCEPT !.remote_jid = row.remote_jid,
              !.participant = row.participant,
              !.participant_alt = row.participant_alt,
              !.remote_jid_alt = row.remote_jid_alt,
              !.from_me = row.from_me,
              !.timestamp = row.timestamp,
              !.message_type = row.message_type,
              !.body_text = Coalesce(row.body_text, r.body_text),
              !.phone_number = Coalesce(row.phone_number, r.phone_number),
              !.metadata_json = CoalesceObj(row.metadata_json, r.metadata_json)]

\* ON CONFLICT (chat_id, wa_message_id) DO UPDATE SET ...
MergedMessage(r, row) ==
    [r EXCEPT !.participant = row.participant,
              !.participant_alt = row.participant_alt,
              !.remote_jid_alt = row.remote_jid_alt,
              !.body_text = Coalesce(row.body_text, r.body_text),
              !.phone_number = Coalesce(row.phone_number, r.phone_number),
              !.metadata_json = CoalesceObj(row.metadata_json, r.metadata_json)]

\* a plain INSERT, as if the statement had no ON CONFLICT clause
upsertMessageInsertOnly(tbl, row) == tbl \cup {InsertedMessage(tbl, row)}

upsertMessage(tbl, row) ==
    IF MessageByKey(tbl, row.chat_id, row.wa_message_id) = {}
    THEN tbl \cup {InsertedMessage(tbl, row)}
    ELSE {IF r.chat_id = row.chat_id /\ r.wa_message_id = row.wa_message_id
          THEN MergedMessage(r, row)
          ELSE r : r \in tbl}

\* the UPDATE without its `AND jid_pn IS NULL`
SetChatPnAlways(tbl, pn, lid) ==
    {IF r.jid = lid THEN [r EXCEPT !.jid_pn = pn] ELSE r : r \in tbl}

\* the chat update written as an upsert: a missing chat is created
SetChatPnOrInsert(tbl, pn, lid) ==
    IF ChatByJid(tbl, lid) = {}
    THEN tbl \cup {[id |-> NextId(tbl), jid |-> lid, jid_pn |-> pn,
                    name |-> NULL, is_group |-> FALSE]}
    ELSE {IF r.jid = lid /\ r.jid_pn = NULL THEN [r EXCEPT !.jid_pn = pn] ELSE r : r \in tbl}

\* UPDATE chats SET jid_pn = $1 WHERE jid = $2 AND jid_pn IS NULL
SetChatPnIfNull(tbl, pn, lid) ==
    {IF r.jid = lid /\ r.jid_pn = NULL THEN [r EXCEPT !.jid_pn = pn] ELSE r : r \in tbl}

-----------------------------------------------------------------------------
(* Bounds of the model and the events the transport may deliver *)

\* data events (batches, mapping updates) delivered in one run of Spec
MaxEvents == 2
\* data events delivered in one run of SpecData
MaxDataEvents == 3
\* connect() calls in one run
MaxConnects == 2
\* store writes that fail in one run
MaxFailures == 1
\* where the count of delivered events stops
EventsCap == MaxDataEvents
\* batches delivered in one run of SpecLive
MaxBatches == 2
\* handlers waiting for the store at one time in SpecLive
MaxQueue == 2
\* upsert calls in one run of SpecDb
MaxCalls == 3
\* content fields set together in one payload of SpecNorm
MaxFields == 3

\* one step of the clock: a third of the idle timeout where that is the only
\* delay (sync-history.ts), the reconnect delay in listen.ts
TickMs(md) == IF md = "sync" THEN IDLE_TIMEOUT_MS \div 3 ELSE RECONNECT_DELAY_MS

RawChat(id, name, displayName, pnJid) ==
    [id |-> id, name |-> name, displayName |-> displayName, pnJid |-> pnJid]

ChatPlain == RawChat(LidJid, NULL, NULL, NULL)
ChatNamed == RawChat(LidJid, "Alice", NULL, PnJid)
ChatNoId == RawChat(NULL, NULL, "nobody", NULL)

RawContact(id, phoneNumber, lid, name, notify, verifiedName) ==
    [id |-> id, phoneNumber |-> phoneNumber, lid |-> lid, name |-> name,
     notify |-> notify, verifiedName |-> verifiedName]

ContactPush == RawContact(LidJid, NULL, NULL, NULL, "ali", NULL)
ContactNoId == RawContact(NULL, NULL, NULL, NULL, NULL, "Shop")

MsgKey(remoteJid, id, participant, participantAlt, remoteJidAlt, fromMe) ==
    [remoteJid |-> remoteJid, id |-> id, participant |-> participant,
     participantAlt |-> participantAlt, remoteJidAlt |-> remoteJidAlt,
     fromMe |-> fromMe]

RawMsg(key, ts, message) ==
    [key |-> key, messageTimestamp |-> ts, message |-> message]

\* a direct message with text
MsgText ==
    RawMsg(MsgKey(LidJid, "M1", NULL, NULL, PnJid, FALSE), 100, [conversation |-> "hi"])
\* the same message again, stripped: no content, other envelope
MsgAgain ==
    RawMsg(MsgKey(LidJid, "M1", PnJid2, LidJid, NULL, TRUE), 200, NoObj)
\* a group message with a captioned image
MsgGroup ==
    RawMsg(MsgKey(GroupJid, "M1", PnJid, LidJid, NULL, FALSE), 300,
           [imageMessage |-> [caption |-> "pic"]])
\* no conversation key
MsgNoJid ==
    RawMsg(MsgKey(NULL, "M2", NULL, NULL, NULL, FALSE), 100, [conversation |-> "lost"])
\* no message id
MsgNoId ==
    RawMsg(MsgKey(PnJid, NULL, NULL, NULL, NULL, FALSE), 100, [conversation |-> "lost"])

Batch(cs, ks, ms) == [chats |-> cs, contacts |-> ks, messages |-> ms]

\* messaging-history.set payloads
HistoryPool ==
    {Batch(<<ChatPlain>>, <<ContactPush>>, <<MsgText>>),
     Batch(<<>>, <<>>, <<MsgNoJid, MsgAgain>>),
     Batch(<<ChatNoId>>, <<ContactNoId>>, <<MsgNoId, MsgGroup>>),
     Batch(<<ChatNamed>>, <<>>, <<>>)}

\* chats.upsert, contacts.upsert and messages.upsert payloads
ChatsPool == {<<ChatPlain>>, <<ChatNoId, ChatNamed>>}
ContactsPool == {<<ContactNoId, ContactPush>>}
MessagesPool == {<<MsgText>>, <<MsgNoJid, MsgAgain>>, <<MsgNoId, MsgGroup>>}

\* lid-mapping.update payloads
LidPool == {[lid |-> LidJid, pn |-> PnJid], [lid |-> LidJid, pn |-> PnJid2]}

-----------------------------------------------------------------------------
(* Timers *)

Timer(kind, due) == [kind |-> kind, due |-> due]

\* clearTimeout(h)
ClearTimeout(ts, h) == SelectSeq(ts, LAMBDA t : ~(t.kind = "idle" /\ t.due = h))

\* resetIdleTimer without its clearTimeout: the old timer stays set
resetIdleTimerNoClear(ts, h, nowMs) ==
    Append(ts, Timer("idle", nowMs + IDLE_TIMEOUT_MS))

\* resetIdleTimer without its setTimeout: no timer is set
resetIdleTimerClearOnly(ts, h, nowMs) ==
    IF h # NoTimer THEN ClearTimeout(ts, h) ELSE ts

\* resetIdleTimer(): the timer queue afterwards
resetIdleTimer(ts, h, nowMs) ==
    Append(IF h # NoTimer THEN ClearTimeout(ts, h) ELSE ts,
           Timer("idle", nowMs + IDLE_TIMEOUT_MS))

\* index of the timer Node runs next: the earliest due, oldest first
NextTimer(ts) ==
    CHOOSE i \in 1..Len(ts) :
        \A j \in 1..Len(ts) : ts[i].due < ts[j].due \/ (ts[i].due = ts[j].due /\ i <= j)

RemoveAt(ts, i) == SubSeq(ts, 1, i - 1) \o SubSeq(ts, i + 1, Len(ts))

TimerDue(ts, nowMs) == \E i \in 1..Len(ts) : ts[i].due <= nowMs

-----------------------------------------------------------------------------
(* Async handlers: what runs between two awaits *)

NoQuery == [op |-> "none"]

\* a handler invocation: the query it awaits, the entries its loops have
\* still to go through (the current one first), and its `messages` argument
Task(h, cs, ks, ms) ==
    [h |-> h, q |-> NoQuery, chats |-> cs, contacts |-> ks, msgs |-> ms, all |-> ms]

\* !key?.remoteJid || !key?.id
Unkeyable(m) == ~Truthy(m.key.remoteJid) \/ ~Truthy(m.key.id)

\* the loop without its `continue`: every entry is processed
KeepUnkeyable(ms) == ms

RECURSIVE DropUnkeyable(_)
DropUnkeyable(ms) ==
    IF ms # <<>> /\ Unkeyable(Head(ms)) THEN DropUnkeyable(Tail(ms)) ELSE ms

\* listen.ts: if (!jid) continue / if (!contact.id) continue; sync-history.ts
\* has no such test
RECURSIVE DropNoId(_, _)
DropNoId(xs, md) ==
    IF md = "listen" /\ xs # <<>> /\ ~Truthy(Head(xs).id)
    THEN DropNoId(Tail(xs), md)
    ELSE xs

CacheSet(cache, jid, id) ==
    [j \in DOMAIN cache \cup {jid} |-> IF j = jid THEN id ELSE cache[j]]

\* messageToRow(chatId, key, msg, key.fromMe ?? false) for the message m
RowOf(chatId, m, nowMs) == messageToRow(chatId, m.key, m, m.key.fromMe, nowMs)

\* The handler t runs on to its next `await db.query`: the loops of
\* persistBatch (and of the listen handlers) up to the query they issue next.
RunToAwait(t, cache, nowMs, md) ==
    LET cs == DropNoId(t.chats, md)
        ks == DropNoId(t.contacts, md)
        ms == DropUnkeyable(t.msgs)
    IN IF cs # <<>>
       THEN [t EXCEPT !.chats = cs,
                      !.q = [op |-> "upsertChat", row |-> chatToRow(Head(cs))]]
       ELSE IF ks # <<>>
       THEN [t EXCEPT !.chats = <<>>, !.contacts = ks,
                      !.q = [op |-> "upsertContact", row |-> contactToRow(Head(ks))]]
       ELSE IF ms # <<>>
       THEN LET jid == Head(ms).key.remoteJid
            IN IF jid \in DOMAIN cache
               THEN [t EXCEPT !.chats = <<>>, !.contacts = <<>>, !.msgs = ms,
                              !.q = [op |-> "upsertMessage",
                                     row |-> RowOf(cache[jid], Head(ms), nowMs)]]
               ELSE [t EXCEPT !.chats = <<>>, !.contacts = <<>>, !.msgs = ms,
                              !.q = [op |-> "ensureChat",
                                     row |-> chatToRow(MinimalChat(jid))]]
       ELSE [t EXCEPT !.chats = <<>>, !.contacts = <<>>, !.msgs = <<>>,
                      !.q = NoQuery]

Finished(t) == t.q.op = "none"

\* the queue of suspended handlers after handler t has run to its first await
Enqueue(ts, t) == IF Finished(t) THEN ts ELSE Append(ts, t)

-----------------------------------------------------------------------------
(* The state after main() has called connect() *)

\* events:    data events delivered          fails:   store writes that failed
\* seenChats: chat entries delivered         seenMsgs: message entries delivered
\* persisted: (jid, message id) of every upsertMessage the store ran
\* conflicts: those of them that met an existing row
\* finished:  the `messages` of every handler that ran to its end
\* lidDone:   the chat updates of lid-mapping.update the store ran, each with
\*            the alternate key it met
\* lastOpenOrBatch, firstBatch, lastLid: when the last connection-open or
\*            batch, the first batch, the last mapping update were handled
\* lastClose, connectsAtClose: the last close event and connects before it
\* target, calls: the table SpecDb exercises and the rows passed to it; the
\*            function SpecNorm applies and its argument
\* results:   what the function of SpecNorm returned
NoHist ==
    [events |-> 0, fails |-> 0, seenChats |-> {}, seenMsgs |-> {},
     persisted |-> {}, conflicts |-> {}, finished |-> {}, lidDone |-> {},
     lastOpenOrBatch |-> NoNum, firstBatch |-> NoNum, lastLid |-> NoNum,
     lastClose |-> "none", connectsAtClose |-> 0,
     target |-> "none", calls |-> <<>>, results |-> <<>>]

\* the event counter after one more event; it stops counting at EventsCap
CountUp(n) == IF n < EventsCap THEN n + 1 ELSE n

\* the elements of a sequence
Range(xs) == {xs[i] : i \in 1..Len(xs)}

\* hist after a handler was invoked with these entries and ran to its first await
Delivered(h, t0, t1) ==
    [h EXCEPT !.events = CountUp(@),
              !.seenChats = @ \cup Range(t0.chats),
              !.seenMsgs = @ \cup Range(t0.msgs),
              !.finished = IF Finished(t1) THEN @ \cup {t0.all} ELSE @]

\* the chats table once two conversations were seen
StoredChats ==
    upsertChat(upsertChat({}, chatToRow(MinimalChat(LidJid))),
               chatToRow(MinimalChat(GroupJid)))

\* the state after main() of one of the programs `modes`; where the upserts
\* of the messages table are exercised, its chats are stored
InitWith(modes, targets) ==
    /\ mode \in modes
    /\ exitCode = Running
    /\ exitCause = "none"
    /\ conn = "connecting"
    /\ connects = 1
    /\ now = 0
    /\ timers = <<>>
    /\ idleTimer = NoTimer
    /\ batchCount = 0
    /\ chatIdCache = [j \in {} |-> 0]
    /\ hist \in {[NoHist EXCEPT !.target = t] : t \in targets}
    /\ chats = IF hist.target = "messages" THEN StoredChats ELSE {}
    /\ contacts = {}
    /\ messages = {}
    /\ tasks = <<>>

Init == InitWith({"sync", "listen"}, {"none"})

Alive == exitCode = Running

storeVars == <<chats, contacts, messages, chatIdCache, tasks>>
ctlVars == <<exitCode, exitCause, conn, connects, timers, idleTimer>>

-----------------------------------------------------------------------------
(* connection.update *)

\* update.connection === "open"
ConnOpen ==
    /\ Alive /\ conn = "connecting"
    /\ conn' = "open"
    /\ IF mode = "sync"
       THEN /\ timers' = resetIdleTimer(timers, idleTimer, now)
            /\ idleTimer' = now + IDLE_TIMEOUT_MS
       ELSE UNCHANGED <<timers, idleTimer>>
    /\ hist' = [hist EXCEPT !.lastOpenOrBatch = now]
    /\ UNCHANGED <<mode, exitCode, exitCause, connects, now, batchCount>>
    /\ UNCHANGED storeVars

\* the close branch without its loggedOut test
CloseEffectNoLogoutTest(md, code) ==
    IF code = RestartRequired THEN "connect"
    ELSE IF md = "sync" THEN "exit1"
    ELSE "reconnectLater"

\* the close branch of listen.ts in both programs
CloseEffectOfListen(md, code) ==
    IF code = LoggedOut THEN "exit1"
    ELSE IF code = RestartRequired THEN "connect"
    ELSE "reconnectLater"

\* the close branch without its restartRequired test
CloseEffectNoRestartTest(md, code) ==
    IF code = LoggedOut THEN "exit1"
    ELSE IF md = "sync" THEN "exit1"
    ELSE "reconnectLater"

\* what the close branch of the handler does for status code `code`
CloseEffect(md, code) ==
    IF code = LoggedOut THEN "exit1"
    ELSE IF code = RestartRequired THEN "connect"
    ELSE IF md = "sync" THEN "exit1"
    ELSE "reconnectLater"

\* update.connection === "close"
ConnClose(code) ==
    /\ Alive /\ conn \in {"connecting", "open"}
    /\ LET eff == CloseEffect(mode, code)
       IN /\ eff = "connect" => connects < MaxConnects
          /\ eff = "reconnectLater" => connects < MaxConnects
          /\ exitCode' = IF eff = "exit1" THEN 1 ELSE exitCode
          /\ exitCause' = IF eff = "exit1"
                          THEN (IF code = LoggedOut THEN "loggedOut" ELSE "disconnect")
                          ELSE exitCause
          /\ conn' = IF eff = "connect" THEN "connecting" ELSE "closed"
          /\ connects' = IF eff = "connect" THEN connects + 1 ELSE connects
          /\ timers' = IF eff = "reconnectLater"
                       THEN Append(timers, Timer("reconnect", now + RECONNECT_DELAY_MS))
                       ELSE timers
    /\ hist' = [hist EXCEPT !.lastClose = code, !.connectsAtClose = connects]
    /\ UNCHANGED <<mode, now, idleTimer, batchCount>>
    /\ UNCHANGED storeVars

-----------------------------------------------------------------------------
(* Timers and the clock *)

\* setTimeout(done, IDLE_TIMEOUT_MS) fires: done()
IdleFire ==
    /\ Alive /\ timers # <<>>
    /\ LET i == NextTimer(timers)
       IN /\ timers[i].due <= now
          /\ timers[i].kind = "idle"
          /\ timers' = RemoveAt(timers, i)
    /\ exitCode' = 0
    /\ exitCause' = "idle"
    /\ UNCHANGED <<mode, conn, connects, now, idleTimer, batchCount, hist>>
    /\ UNCHANGED storeVars

\* setTimeout(() => connect(), 5000) fires
ReconnectFire ==
    /\ Alive /\ timers # <<>>
    /\ LET i == NextTimer(timers)
       IN /\ timers[i].due <= now
          /\ timers[i].kind = "reconnect"
          /\ timers' = RemoveAt(timers, i)
    /\ conn' = "connecting"
    /\ connects' = connects + 1
    /\ UNCHANGED <<mode, exitCode, exitCause, now, idleTimer, batchCount, hist>>
    /\ UNCHANGED storeVars

\* Time passes; a timer that is due runs before the clock moves on.  The
\* clock is followed while a timer is pending: with none pending, nothing
\* either program does depends on how long that lasts.
Tick ==
    /\ Alive
    /\ timers # <<>>
    /\ ~TimerDue(timers, now)
    /\ now' = now + TickMs(mode)
    /\ UNCHANGED <<mode, batchCount, hist>>
    /\ UNCHANGED ctlVars
    /\ UNCHANGED storeVars

-----------------------------------------------------------------------------
(* Data events of sync-history.ts *)

\* the socket emits data events while the connection is open
CanDeliver == Alive /\ conn = "open"

\* messaging-history.set: the handler up to its first await
HistorySet(cs, ks, ms) ==
    /\ CanDeliver /\ mode = "sync"
    /\ batchCount' = batchCount + 1
    /\ timers' = resetIdleTimer(timers, idleTimer, now)
    /\ idleTimer' = now + IDLE_TIMEOUT_MS
    /\ LET t0 == Task("history", cs, ks, ms)
           t1 == RunToAwait(t0, chatIdCache, now, mode)
       IN /\ tasks' = Enqueue(tasks, t1)
          /\ hist' = [Delivered(hist, t0, t1) EXCEPT
                        !.lastOpenOrBatch = now,
                        !.firstBatch = IF @ = NoNum THEN now ELSE @]
    /\ UNCHANGED <<mode, exitCode, exitCause, conn, connects, now>>
    /\ UNCHANGED <<chats, contacts, messages, chatIdCache>>

\* lid-mapping.update: the handler up to its first await
LidMappingUpdate(m) ==
    /\ CanDeliver /\ mode = "sync"
    /\ timers' = resetIdleTimer(timers, idleTimer, now)
    /\ idleTimer' = now + IDLE_TIMEOUT_MS
    /\ tasks' = Append(tasks,
         [Task("lid", <<>>, <<>>, <<>>) EXCEPT
            !.q = [op |-> "lidContact", lid |-> m.lid, pn |-> m.pn,
                   row |-> [wa_id |-> m.lid, phone_number |-> StripPnSuffix(m.pn),
                            lid |-> m.lid, push_name |-> NULL]]])
    /\ hist' = [hist EXCEPT !.events = CountUp(@), !.lastLid = now]
    /\ UNCHANGED <<mode, exitCode, exitCause, conn, connects, now, batchCount>>
    /\ UNCHANGED <<chats, contacts, messages, chatIdCache>>

-----------------------------------------------------------------------------
(* Data events of listen.ts *)

\* a listen handler over one list, up to its first await
ListenEvent(t) ==
    /\ CanDeliver /\ mode = "listen"
    /\ LET t1 == RunToAwait(t, chatIdCache, now, mode)
       IN /\ tasks' = Enqueue(tasks, t1)
          /\ hist' = Delivered(hist, t, t1)
    /\ UNCHANGED <<mode, now, batchCount>>
    /\ UNCHANGED ctlVars
    /\ UNCHANGED <<chats, contacts, messages, chatIdCache>>

ChatsUpsert(cs) == ListenEvent(Task("chats", cs, <<>>, <<>>))

ContactsUpsert(ks) == ListenEvent(Task("contacts", <<>>, ks, <<>>))

MessagesUpsert(ms) == ListenEvent(Task("messages", <<>>, <<>>, ms))

-----------------------------------------------------------------------------
(* The store answers the oldest outstanding query *)

\* the handler t after its query succeeded, with the cache as it is then
Resume(t, cache, chatsAfter, nowMs, md) ==
    CASE t.q.op = "upsertChat" ->
           RunToAwait([t EXCEPT !.chats = Tail(@)],
                      CacheSet(cache, t.q.row.jid, ReturnedChatId(chatsAfter, t.q.row.jid)),
                      nowMs, md)
      [] t.q.op = "upsertContact" ->
           RunToAwait([t EXCEPT !.contacts = Tail(@)], cache, nowMs, md)
      [] t.q.op = "ensureChat" ->
           [t EXCEPT !.q = [op |-> "upsertMessage",
                            row |-> RowOf(ReturnedChatId(chatsAfter, t.q.row.jid),
                                          Head(t.msgs), nowMs)]]
      [] t.q.op = "upsertMessage" ->
           RunToAwait([t EXCEPT !.msgs = Tail(@)], cache, nowMs, md)
      [] t.q.op = "lidContact" ->
           [t EXCEPT !.q = [op |-> "updateChatPn", lid |-> t.q.lid, pn |-> t.q.pn]]
      [] OTHER -> [t EXCEPT !.q = NoQuery]

QueryDone ==
    /\ Alive /\ tasks # <<>>
    /\ LET t == Head(tasks)
           op == t.q.op
       IN /\ chats' = CASE op \in {"upsertChat", "ensureChat"} -> upsertChat(chats, t.q.row)
                        [] op = "updateChatPn" -> SetChatPnIfNull(chats, t.q.pn, t.q.lid)
                        [] OTHER -> chats
          /\ contacts' = IF op \in {"upsertContact", "lidContact"}
                         THEN upsertContact(contacts, t.q.row)
                         ELSE contacts
          /\ messages' = IF op = "upsertMessage"
                         THEN upsertMessage(messages, t.q.row)
                         ELSE messages
          /\ chatIdCache' = IF op \in {"upsertChat", "ensureChat"}
                            THEN CacheSet(chatIdCache, t.q.row.jid,
                                          ReturnedChatId(chats', t.q.row.jid))
                            ELSE chatIdCache
          /\ LET t1 == Resume(t, chatIdCache, chats', now, mode)
                 k == <<t.q.row.remote_jid, t.q.row.wa_message_id>>
             IN /\ tasks' = Enqueue(Tail(tasks), t1)
                /\ hist' =
                     [hist EXCEPT
                        !.persisted = IF op = "upsertMessage" THEN @ \cup {k} ELSE @,
                        !.conflicts =
                           IF /\ op = "upsertMessage"
                              /\ MessageByKey(messages, t.q.row.chat_id,
                                              t.q.row.wa_message_id) # {}
                           THEN @ \cup {k} ELSE @,
                        !.finished = IF Finished(t1) /\ t.h # "lid"
                                     THEN @ \cup {t.all} ELSE @,
                        !.lidDone =
                           IF op = "updateChatPn"
                           THEN @ \cup {[pn |-> t.q.pn,
                                          before |-> {c.jid_pn : c \in ChatByJid(chats, t.q.lid)}]}
                           ELSE @]
    /\ UNCHANGED <<mode, now, batchCount>>
    /\ UNCHANGED ctlVars

\* a handler that catches the rejection and issues the failed write again
QueryFailsRetry(crash) ==
    /\ Alive /\ tasks # <<>>
    /\ hist.fails < MaxFailures
    /\ tasks' = Append(Tail(tasks), Head(tasks))
    /\ hist' = [hist EXCEPT !.fails = @ + 1]
    /\ UNCHANGED <<mode, conn, connects, now, timers, idleTimer, batchCount>>
    /\ UNCHANGED <<exitCode, exitCause, chats, contacts, messages, chatIdCache>>

\* The oldest outstanding query is rejected: the handler's promise rejects
\* and nothing handles it.  Node either ends the process with status 1
\* (unhandled rejections throw) or only warns, by version and flags.
QueryFails(crash) ==
    /\ Alive /\ tasks # <<>>
    /\ hist.fails < MaxFailures
    /\ tasks' = Tail(tasks)
    /\ exitCode' = IF crash THEN 1 ELSE exitCode
    /\ exitCause' = IF crash THEN "unhandledRejection" ELSE exitCause
    /\ hist' = [hist EXCEPT !.fails = @ + 1]
    /\ UNCHANGED <<mode, conn, connects, now, timers, idleTimer, batchCount>>
    /\ UNCHANGED <<chats, contacts, messages, chatIdCache>>

-----------------------------------------------------------------------------

\* The session controller with the clock: connection events, timers, and
\* data events that carry one short payload each; every store write succeeds.
Next ==
    \/ ConnOpen
    \/ \E code \in DisconnectReasons : ConnClose(code)
    \/ IdleFire
    \/ ReconnectFire
    \/ Tick
    \/ hist.events < MaxEvents /\ HistorySet(<<>>, <<>>, <<MsgText>>)
    \/ hist.events < MaxEvents /\ LidMappingUpdate([lid |-> LidJid, pn |-> PnJid])
    \/ hist.events < MaxEvents /\ ChatsUpsert(<<ChatPlain>>)
    \/ hist.events < MaxEvents /\ ContactsUpsert(<<ContactPush>>)
    \/ hist.events < MaxEvents /\ MessagesUpsert(<<MsgText>>)
    \/ QueryDone

Spec == Init /\ [][Next]_vars

\* The handlers and the store under every order of delivery and completion,
\* with the full payload pools; the connection stays open and the clock
\* stands still.
NextData ==
    \/ ConnOpen
    \/ /\ hist.events < MaxDataEvents
       /\ \E b \in HistoryPool : HistorySet(b.chats, b.contacts, b.messages)
    \/ hist.events < MaxDataEvents /\ \E m \in LidPool : LidMappingUpdate(m)
    \/ hist.events < MaxDataEvents /\ \E cs \in ChatsPool : ChatsUpsert(cs)
    \/ hist.events < MaxDataEvents /\ \E ks \in ContactsPool : ContactsUpsert(ks)
    \/ hist.events < MaxDataEvents /\ \E ms \in MessagesPool : MessagesUpsert(ms)
    \/ QueryDone
    \/ \E crash \in BOOLEAN : QueryFails(crash)

SpecData == Init /\ [][NextData]_vars

-----------------------------------------------------------------------------
(* The backfill run for as long as it lasts *)

\* Time passes, read from the present: `now` stays the origin and every
\* pending timer comes TickMs nearer.  This is Tick with the origin of the
\* clock moved along, which keeps a run of any length in finitely many states.
Elapse ==
    /\ Alive
    /\ timers # <<>>
    /\ ~TimerDue(timers, now)
    /\ timers' = [i \in 1..Len(timers) |->
                     [timers[i] EXCEPT !.due = @ - TickMs(mode)]]
    /\ idleTimer' = IF idleTimer = NoTimer THEN NoTimer ELSE idleTimer - TickMs(mode)
    /\ UNCHANGED <<mode, exitCode, exitCause, conn, connects, now, batchCount, hist>>
    /\ UNCHANGED storeVars

InitLive == InitWith({"sync"}, {"none"})

\* sync-history.ts with finitely many batches and any number of mapping updates
NextLive ==
    \/ ConnOpen
    \/ \E code \in DisconnectReasons : ConnClose(code)
    \/ IdleFire
    \/ Elapse
    \/ batchCount < MaxBatches /\ HistorySet(<<ChatPlain>>, <<>>, <<>>)
    \/ Len(tasks) < MaxQueue /\ LidMappingUpdate([lid |-> LidJid, pn |-> PnJid])
    \/ QueryDone

\* Time does not stop, a timer that is due runs, the store answers.
SpecLive ==
    /\ InitLive /\ [][NextLive]_vars
    /\ WF_vars(Elapse) /\ WF_vars(IdleFire) /\ WF_vars(QueryDone)

-----------------------------------------------------------------------------
(* baileys-helpers applied to one argument *)

\* the content fields extractMessageType tests, in the order it tests them
ContentFields ==
    <<"conversation", "extendedTextMessage", "imageMessage", "videoMessage",
      "audioMessage", "documentMessage", "stickerMessage", "contactMessage",
      "contactsArrayMessage", "locationMessage", "liveLocationMessage",
      "reactionMessage", "pollCreationMessage", "pollCreationMessageV3">>

ViewOnceFields == {"viewOnceMessage", "viewOnceMessageV2"}

\* a payload with the fields S set; conv is the text of `conversation`
Payload(S, conv) ==
    [f \in S |-> IF f = "conversation" THEN conv
                 ELSE IF f = "extendedTextMessage" THEN [text |-> "long"]
                 ELSE [caption |-> "pic"]]

PlainPayloads ==
    {Payload(S, conv) :
        S \in {T \in SUBSET Range(ContentFields) : Cardinality(T) <= MaxFields},
        conv \in {"hi", ""}}

\* what a view-once wrapper may hold: nothing, a payload, another wrapper
InnerPayloads ==
    {NoObj, Payload({"imageMessage"}, "hi"), Payload({"conversation"}, "hi"),
     Payload({"conversation"}, ""),
     [viewOnceMessageV2 |-> [message |-> Payload({"videoMessage"}, "hi")]]}

\* payloads with one or both view-once wrappers, alone or beside a field
ViewOncePayloads ==
    {[f \in W \cup S |-> IF f = "viewOnceMessage" THEN [message |-> in1]
                         ELSE IF f = "viewOnceMessageV2" THEN [message |-> in2]
                         ELSE [caption |-> "pic"]] :
        W \in (SUBSET ViewOnceFields) \ {{}},
        S \in {{}, {"stickerMessage"}, {"pollCreationMessage"}},
        in1 \in InnerPayloads, in2 \in InnerPayloads}

PayloadPool == PlainPayloads \cup ViewOncePayloads \cup {NoObj}

\* messageTimestamp (s) and Date.now() (ms) around the one-day limit
TimestampPool == {NoNum, 0, 1, 100, 1000000, 1086399, 1086400, 1086401, 2000000}
NowPool == {0, 1000000000, 1000000001, 1000000999}
TimedPool ==
    {[msg |-> RawMsg(MsgKey(LidJid, "M1", NULL, NULL, NULL, FALSE), ts,
                     [conversation |-> "hi"]),
      now |-> n] : ts \in TimestampPool, n \in NowPool}

InitNorm ==
    /\ InitWith({"listen"}, {"extractMessageType", "messageToRow"})

\* extractMessageType(msg)
ExtractMessageTypeCall(msg) ==
    /\ hist.target = "extractMessageType" /\ hist.calls = <<>>
    /\ hist' = [hist EXCEPT !.calls = <<msg>>,
                            !.results = <<extractMessageType(msg)>>]
    /\ UNCHANGED <<mode, now, batchCount>>
    /\ UNCHANGED ctlVars
    /\ UNCHANGED storeVars

\* messageToRow(chatId, key, msg, fromMe) at the time Date.now() = nowMs
MessageToRowCall(msg, nowMs) ==
    /\ hist.target = "messageToRow" /\ hist.calls = <<>>
    /\ now' = nowMs
    /\ hist' = [hist EXCEPT !.calls = <<msg>>,
                            !.results = <<RowOf(1, msg, nowMs)>>]
    /\ UNCHANGED <<mode, batchCount>>
    /\ UNCHANGED ctlVars
    /\ UNCHANGED storeVars

NextNorm ==
    \/ \E msg \in PayloadPool : ExtractMessageTypeCall(msg)
    \/ \E c \in TimedPool : MessageToRowCall(c.msg, c.now)

SpecNorm == InitNorm /\ [][NextNorm]_vars

-----------------------------------------------------------------------------
(* The listener with its reconnects and with store writes that fail *)

InitListen == InitWith({"listen"}, {"none"})

NextListen ==
    \/ ConnOpen
    \/ \E code \in DisconnectReasons : ConnClose(code)
    \/ ReconnectFire
    \/ Tick
    \/ hist.events < MaxEvents /\ ChatsUpsert(<<ChatPlain>>)
    \/ hist.events < MaxEvents /\ ContactsUpsert(<<ContactPush>>)
    \/ hist.events < MaxEvents /\ MessagesUpsert(<<MsgText>>)
    \/ QueryDone
    \/ \E crash \in BOOLEAN : QueryFails(crash)

\* Time does not stop and a timer that is due runs.
SpecListen ==
    /\ InitListen /\ [][NextListen]_vars
    /\ WF_vars(Tick) /\ WF_vars(ReconnectFire)

-----------------------------------------------------------------------------
(* Properties of the handlers and the store, checked under SpecData *)

\* the chat row the store holds for a jid, as a set
ChatIdsOf(jid) == {c.id : c \in ChatByJid(chats, jid)}

\* C1: Whatever batches were delivered, and however often the same message
\* came again, the store holds at most one message row per (chat id, message
\* id), and exactly one for every keyed message whose upsert the store ran.
C1_OneRowPerMessageKey ==
    /\ \A r1, r2 \in messages :
          (r1.chat_id = r2.chat_id /\ r1.wa_message_id = r2.wa_message_id) => r1 = r2
    /\ \A k \in hist.persisted :
          /\ Cardinality(ChatIdsOf(k[1])) = 1
          /\ \A id \in ChatIdsOf(k[1]) : Cardinality(MessageByKey(messages, id, k[2])) = 1

\* a message was upserted again after its row existed, in a store that holds
\* the rows of two chats
C1_Witness ==
    /\ <<LidJid, "M1">> \in hist.conflicts
    /\ <<GroupJid, "M1">> \in hist.persisted
    /\ Cardinality(messages) = 2

\* the (jid, message id) of the keyed entries among ms
KeysOf(ms) == {<<m.key.remoteJid, m.key.id>> : m \in {x \in ms : ~Unkeyable(x)}}

\* C9: An entry without a conversation key or without a message id leaves no
\* trace: every message row is the row of a keyed entry that was delivered,
\* every chat row belongs to a delivered chat entry or to a keyed message.
\* It stops nothing either: when a handler has run to its end, every keyed
\* entry of its batch has its row, also the entries after an unkeyable one.
C9_UnkeyableSkipped ==
    /\ \A r \in messages : <<r.remote_jid, r.wa_message_id>> \in KeysOf(hist.seenMsgs)
    /\ \A c \in chats :
          \/ c.jid \in {Nullish(x.id, "") : x \in hist.seenChats}
          \/ c.jid \in {k[1] : k \in KeysOf(hist.seenMsgs)}
    /\ \A ms \in hist.finished : \A k \in KeysOf(Range(ms)) :
          \E id \in ChatIdsOf(k[1]) : MessageByKey(messages, id, k[2]) # {}

\* a handler whose batch begins with an unkeyable entry has finished, and the
\* only row is that of the entry after it
C9_Witness ==
    /\ <<MsgNoJid, MsgAgain>> \in hist.finished
    /\ hist.seenMsgs = {MsgNoJid, MsgAgain}
    /\ Cardinality(messages) = 1
    /\ Cardinality(chats) = 1

\* the store runs the chat update of a lid-mapping.update in this step
LidChatUpdateStep ==
    /\ tasks # <<>> /\ Head(tasks).q.op = "updateChatPn"
    /\ tasks' = Tail(tasks) /\ hist'.fails = hist.fails

\* C10: The chat update of an identity-mapping event sets the alternate key
\* of the chat with that anonymized key when it is null, and leaves an
\* alternate key that is set as it is, whatever key the event carries.
C10_FirstResolutionWins ==
    [][LidChatUpdateStep =>
         \A c \in chats :
            \E d \in chats' :
               /\ d.id = c.id /\ d.jid = c.jid
               /\ d.jid_pn = IF c.jid = Head(tasks).q.lid /\ c.jid_pn = NULL
                             THEN Head(tasks).q.pn
                             ELSE c.jid_pn]_vars

\* the chat existed with no alternate key, a first event set it and a second
\* event with another key left it
C10_Witness ==
    /\ hist.lidDone = {[pn |-> PnJid, before |-> {NULL}],
                        [pn |-> PnJid2, before |-> {PnJid}]}
    /\ \E c \in chats : c.jid = LidJid /\ c.jid_pn = PnJid

-----------------------------------------------------------------------------
(* Properties of the session controller, checked under Spec *)

NoReconnectPending == \A i \in 1..Len(timers) : timers[i].kind # "reconnect"

\* C2: In both programs, once a close event with the logged-out reason has
\* been handled the process has exited with status 1, connect() has not been
\* called since, and no delayed reconnect is pending.
C2_LoggedOutIsFatal ==
    hist.lastClose = LoggedOut =>
        /\ exitCode = 1
        /\ connects = hist.connectsAtClose
        /\ NoReconnectPending

\* the listener is logged out on its second connection
C2_Witness ==
    /\ mode = "listen" /\ hist.lastClose = LoggedOut
    /\ connects = 2 /\ exitCode = 1

Max2(a, b) == IF a >= b THEN a ELSE b

\* when the idle timer was last reset: at the last open, batch or mapping update
LastReset == Max2(hist.lastOpenOrBatch, hist.lastLid)

C4_BackfillExitStatus ==
    mode = "sync" =>
        /\ exitCode = 0 =>
              /\ exitCause = "idle"
              /\ idleTimer # NoTimer /\ idleTimer <= now
              /\ hist.lastClose \in {"none", RestartRequired}
        /\ hist.lastClose \in DisconnectReasons \ {RestartRequired} =>
              /\ exitCode = 1
              /\ connects = hist.connectsAtClose
              /\ NoReconnectPending

\* the connection is lost after a batch of the backfill
C4_Witness ==
    /\ mode = "sync" /\ batchCount = 1
    /\ hist.lastClose = ConnectionLost /\ exitCode = 1

-----------------------------------------------------------------------------
(* db.ts called directly: any rows, in any order, on one table *)

ChatRow(jid, jidPn, name, isGroup) ==
    [jid |-> jid, jid_pn |-> jidPn, name |-> name, is_group |-> isGroup]

ChatRowPool ==
    {ChatRow(LidJid, pn, nm, FALSE) : pn \in {NULL, PnJid, PnJid2},
                                      nm \in {NULL, "Alice", "Bob"}}
    \cup {ChatRow(GroupJid, NULL, NULL, TRUE), ChatRow(GroupJid, NULL, "Team", TRUE)}

ContactRow(waId, phoneNumber, lid, pushName) ==
    [wa_id |-> waId, phone_number |-> phoneNumber, lid |-> lid, push_name |-> pushName]

ContactRowPool ==
    {ContactRow(PnJid, ph, ld, nm) : ph \in {NULL, "111", "222"},
                                     ld \in {NULL, LidJid, "xyz@lid"},
                                     nm \in {NULL, "Alice", "Bob"}}
    \cup {ContactRow(PnJid2, "222", NULL, NULL)}

\* the columns the conflict clause overwrites, coalesces, does not name
Overwritten ==
    {[participant |-> NULL, participant_alt |-> NULL, remote_jid_alt |-> NULL],
     [participant |-> PnJid, participant_alt |-> LidJid, remote_jid_alt |-> PnJid],
     [participant |-> PnJid2, participant_alt |-> NULL, remote_jid_alt |-> PnJid2]}
Coalesced ==
    {[body_text |-> NULL, phone_number |-> NULL, metadata_json |-> NoObj],
     [body_text |-> "hi", phone_number |-> "111", metadata_json |-> [conversation |-> "hi"]],
     [body_text |-> "yo", phone_number |-> NULL, metadata_json |-> [conversation |-> "yo"]]}
Unnamed ==
    {[remote_jid |-> LidJid, from_me |-> FALSE, timestamp |-> 100000, message_type |-> "text"],
     [remote_jid |-> PnJid, from_me |-> TRUE, timestamp |-> 200000, message_type |-> "image"]}

MessageRow(chatId, waMessageId, un, ow, co) ==
    [chat_id |-> chatId, wa_message_id |-> waMessageId, remote_jid |-> un.remote_jid,
     participant |-> ow.participant, participant_alt |-> ow.participant_alt,
     remote_jid_alt |-> ow.remote_jid_alt, from_me |-> un.from_me,
     timestamp |-> un.timestamp, message_type |-> un.message_type,
     body_text |-> co.body_text, phone_number |-> co.phone_number,
     metadata_json |-> co.metadata_json]

\* rows for message M1 of chat 1, and one row each for two other keys
MessageRowPool ==
    {MessageRow(1, "M1", un, ow, co) : un \in Unnamed, ow \in Overwritten, co \in Coalesced}
    \cup {MessageRow(2, "M1", un, ow, co) :
             un \in {x \in Unnamed : x.from_me}, ow \in {x \in Overwritten : x.participant = PnJid},
             co \in {x \in Coalesced : x.body_text = "yo"}}
    \cup {MessageRow(1, "M2", un, ow, co) :
             un \in {x \in Unnamed : ~x.from_me}, ow \in {x \in Overwritten : x.participant = NULL},
             co \in {x \in Coalesced : x.body_text = NULL}}

\* await upsertChat(db, row)
UpsertChatCall(row) ==
    /\ hist.target = "chats"
    /\ chats' = upsertChat(chats, row)
    /\ hist' = [hist EXCEPT !.calls = Append(@, row)]
    /\ UNCHANGED <<mode, now, batchCount, contacts, messages, chatIdCache, tasks>>
    /\ UNCHANGED ctlVars

\* await upsertContact(db, row)
UpsertContactCall(row) ==
    /\ hist.target = "contacts"
    /\ contacts' = upsertContact(contacts, row)
    /\ hist' = [hist EXCEPT !.calls = Append(@, row)]
    /\ UNCHANGED <<mode, now, batchCount, chats, messages, chatIdCache, tasks>>
    /\ UNCHANGED ctlVars

\* await upsertMessage(db, row), for a row of a stored chat
UpsertMessageCall(row) ==
    /\ hist.target = "messages"
    /\ row.chat_id \in {c.id : c \in chats}
    /\ messages' = upsertMessage(messages, row)
    /\ hist' = [hist EXCEPT !.calls = Append(@, row)]
    /\ UNCHANGED <<mode, now, batchCount, chats, contacts, chatIdCache, tasks>>
    /\ UNCHANGED ctlVars

InitDb == InitWith({"listen"}, {"chats", "contacts", "messages"})

NextDb ==
    /\ Len(hist.calls) < MaxCalls
    /\ \/ \E row \in ChatRowPool : UpsertChatCall(row)
       \/ \E row \in ContactRowPool : UpsertContactCall(row)
       \/ \E row \in MessageRowPool : UpsertMessageCall(row)

SpecDb == InitDb /\ [][NextDb]_vars

-----------------------------------------------------------------------------
(* Termination of the backfill run, checked under SpecLive *)

\* the lid-mapping.update handler starts in this step
LidMappingStep == \E m \in LidPool : LidMappingUpdate(m)

-----------------------------------------------------------------------------
(* Properties of the upserts, checked under SpecDb *)

\* the calls made so far whose row has key k, in order; Key(row) is the key
CallsFor(Key(_), k) == SelectSeq(hist.calls, LAMBDA row : Key(row) = k)

\* the most recent non-null value the calls cs supplied for field f
LastNonNull(cs, f) ==
    LET I == {i \in 1..Len(cs) : cs[i][f] # NULL}
    IN IF I = {} THEN NULL
       ELSE cs[CHOOSE i \in I : \A j \in I : j <= i][f]

ChatKey(row) == row.jid
ContactKey(row) == row.wa_id
MessageKey(row) == <<row.chat_id, row.wa_message_id>>

\* C6: After any sequence of upsertChat calls, or of upsertContact calls, the
\* one row of each key holds in every coalesced field (name and alternate key
\* of a chat; phone number, anonymized key and display name of a contact) the
\* most recent non-null value the calls for that key supplied, and null only
\* if they all supplied null.
C6_CoalesceLaw ==
    /\ hist.target = "chats" =>
          \A k \in {ChatKey(hist.calls[i]) : i \in 1..Len(hist.calls)} :
             /\ Cardinality(ChatByJid(chats, k)) = 1
             /\ \A r \in ChatByJid(chats, k) :
                   /\ r.name = LastNonNull(CallsFor(ChatKey, k), "name")
                   /\ r.jid_pn = LastNonNull(CallsFor(ChatKey, k), "jid_pn")
    /\ hist.target = "contacts" =>
          \A k \in {ContactKey(hist.calls[i]) : i \in 1..Len(hist.calls)} :
             /\ Cardinality(ContactByWaId(contacts, k)) = 1
             /\ \A r \in ContactByWaId(contacts, k) :
                   /\ r.phone_number = LastNonNull(CallsFor(ContactKey, k), "phone_number")
                   /\ r.lid = LastNonNull(CallsFor(ContactKey, k), "lid")
                   /\ r.push_name = LastNonNull(CallsFor(ContactKey, k), "push_name")

\* a contact upserted with a name and a phone number, then with nulls, then
\* with another name: the phone number stayed and the name was replaced
C6_Witness ==
    /\ hist.target = "contacts"
    /\ hist.calls = <<ContactRow(PnJid, "111", NULL, "Alice"),
                      ContactRow(PnJid, NULL, NULL, NULL),
                      ContactRow(PnJid, NULL, LidJid, "Bob")>>
    /\ contacts = {[id |-> 1, wa_id |-> PnJid, phone_number |-> "111",
                    lid |-> LidJid, push_name |-> "Bob"]}

\* an upsertMessage call runs in this step
UpsertMessageStep ==
    hist.target = "messages" /\ Len(hist'.calls) = Len(hist.calls) + 1

\* the row that call was given
CalledRow == hist'.calls[Len(hist'.calls)]

\* C7: An upsertMessage for a (chat id, message id) that has a row sets the
\* participant key, participant alternate key and conversation alternate key
\* to the new values, null or not, and sets body text, phone number and raw
\* payload to the new value if that is non-null and else leaves them.
C7_MergeOnConflict ==
    [][UpsertMessageStep =>
         \A r \in MessageByKey(messages, CalledRow.chat_id, CalledRow.wa_message_id) :
            \E q \in messages' :
               /\ q.id = r.id
               /\ q.participant = CalledRow.participant
               /\ q.participant_alt = CalledRow.participant_alt
               /\ q.remote_jid_alt = CalledRow.remote_jid_alt
               /\ q.body_text = IF CalledRow.body_text # NULL
                                THEN CalledRow.body_text ELSE r.body_text
               /\ q.phone_number = IF CalledRow.phone_number # NULL
                                   THEN CalledRow.phone_number ELSE r.phone_number
               /\ q.metadata_json = IF CalledRow.metadata_json # NoObj
                                    THEN CalledRow.metadata_json ELSE r.metadata_json]_vars

\* a stored message with all six fields set met a row with all six null: the
\* three keys are null now, text, phone number and payload are as before
C7_Witness ==
    /\ hist.target = "messages" /\ Len(hist.calls) = 2
    /\ MessageKey(hist.calls[1]) = MessageKey(hist.calls[2])
    /\ hist.calls[1].participant = PnJid /\ hist.calls[1].body_text = "hi"
    /\ hist.calls[2].participant = NULL /\ hist.calls[2].body_text = NULL
    /\ \E r \in messages :
          /\ r.participant = NULL /\ r.participant_alt = NULL /\ r.remote_jid_alt = NULL
          /\ r.body_text = "hi" /\ r.phone_number = "111"
          /\ r.metadata_json = [conversation |-> "hi"]

\* C8: An upsertMessage for a (chat id, message id) that has a row leaves the
\* row's timestamp, message type, chat id, conversation key and direction
\* flag as they are, whatever the new row carries for them.
C8_RedeliveryKeepsCreationFields ==
    [][UpsertMessageStep =>
         \A r \in MessageByKey(messages, CalledRow.chat_id, CalledRow.wa_message_id) :
            \E q \in messages' :
               /\ q.id = r.id
               /\ q.timestamp = r.timestamp
               /\ q.message_type = r.message_type
               /\ q.chat_id = r.chat_id
               /\ q.remote_jid = r.remote_jid
               /\ q.from_me = r.from_me]_vars

\* a message stored as incoming text came again as an outgoing image with a
\* later timestamp and another conversation key: the row kept the first values
C8_Witness ==
    /\ hist.target = "messages" /\ Len(hist.calls) = 2
    /\ MessageKey(hist.calls[1]) = MessageKey(hist.calls[2])
    /\ hist.calls[1].timestamp = 100000 /\ hist.calls[2].timestamp = 200000
    /\ hist.calls[2].message_type = "image" /\ hist.calls[2].from_me
    /\ hist.calls[2].remote_jid = PnJid
    /\ Cardinality(messages) = 1
    /\ \E r \in messages :
          /\ r.timestamp = 100000 /\ r.message_type = "text" /\ r.chat_id = 1
          /\ r.remote_jid = LidJid /\ ~r.from_me

-----------------------------------------------------------------------------
(* Properties of the lid-mapping.update handler, checked under SpecData *)

\* C11 as stated: Processing an identity-mapping event never increases the
\* number of Contact rows or the number of Chat rows.
C11_MappingCreatesNoRow ==
    [][(tasks # <<>> /\ Head(tasks).h = "lid" /\ hist'.fails = hist.fails) =>
         /\ Cardinality(contacts') <= Cardinality(contacts)
         /\ Cardinality(chats') <= Cardinality(chats)]_vars

\* C11: Processing an identity-mapping event never changes the number of
\* Chat rows, and adds a Contact row only for the event's anonymized key
\* when no Contact has that key; every row there was keeps its id and key.
C11_MappingCreatesOnlyItsContact ==
    [][(tasks # <<>> /\ Head(tasks).h = "lid" /\ hist'.fails = hist.fails) =>
         /\ Cardinality(chats') = Cardinality(chats)
         /\ \A c \in chats : \E d \in chats' : d.id = c.id /\ d.jid = c.jid
         /\ \A c \in contacts : \E d \in contacts' : d.id = c.id /\ d.wa_id = c.wa_id
         /\ \A d \in contacts' :
               \/ \E c \in contacts : c.id = d.id
               \/ /\ d.wa_id = Head(tasks).q.lid
                  /\ ContactByWaId(contacts, d.wa_id) = {}
         /\ Cardinality(contacts') <= Cardinality(contacts) + 1]_vars

\* a mapping event for a key no contact and no chat had: the store ran both
\* its queries, there is a contact for the key now and still no chat
C11_Witness ==
    /\ hist.lidDone = {[pn |-> PnJid, before |-> {}]}
    /\ hist.seenChats = {} /\ hist.seenMsgs = {} /\ chats = {}
    /\ contacts = {[id |-> 1, wa_id |-> LidJid, phone_number |-> "31612345678",
                    lid |-> LidJid, push_name |-> NULL]}

-----------------------------------------------------------------------------
(* Properties of the reconnect policy *)

\* the connection.update handler runs its close branch for `code` in this step
CloseStep(code) ==
    /\ Alive /\ conn \in {"connecting", "open"} /\ conn' # "open"
    /\ <<conn, connects, exitCode>>' # <<conn, connects, exitCode>>
    /\ hist'.lastClose = code
    /\ hist'.fails = hist.fails /\ Len(timers') >= Len(timers)

\* the pending reconnect timers
ReconnectTimers(ts) == {i \in 1..Len(ts) : ts[i].kind = "reconnect"}

\* C12: In live mode an ordinary disconnect sets one reconnect for 5 seconds
\* later and connects nothing at once; the reconnect is attempted when those
\* 5 seconds have passed, once, and not before; and every ordinary
\* disconnect is followed by its reconnect attempt.
C12_ReconnectAfterDelay ==
    /\ [][/\ (mode = "listen" /\ CloseStep(ConnectionLost)) =>
               /\ Alive' /\ conn' = "closed" /\ connects' = connects
               /\ timers' = Append(timers, Timer("reconnect", now + RECONNECT_DELAY_MS))
          /\ (mode = "listen" /\ conn = "closed" /\ connects' # connects) =>
               /\ connects' = connects + 1 /\ conn' = "connecting"
               /\ Cardinality(ReconnectTimers(timers)) = 1
               /\ \A i \in ReconnectTimers(timers) : timers[i].due = now
               /\ ReconnectTimers(timers') = {}]_vars
    /\ [](mode = "listen" => Cardinality(ReconnectTimers(timers)) <= 1)
    /\ (mode = "listen" /\ Alive /\ conn = "closed") ~> (conn = "connecting")

\* C13: A close with the restart-required reason makes the controller call
\* connect() in the same step, in both modes: the process does not exit, no
\* timer is set and no time passes before the reconnect.
C13_RestartReconnectsAtOnce ==
    [][CloseStep(RestartRequired) =>
         /\ Alive' /\ exitCode' = Running
         /\ conn' = "connecting" /\ connects' = connects + 1
         /\ timers' = timers /\ now' = now]_vars

\* a backfill run that reconnected on restart-required and goes on
C13_Witness ==
    /\ mode = "sync" /\ hist.lastClose = RestartRequired
    /\ Alive /\ conn = "connecting" /\ connects = hist.connectsAtClose + 1
    /\ ReconnectTimers(timers) = {}

\* C14: The listener ends only on logged-out, with status 1.
C14_ListenerEndsOnlyOnLoggedOut ==
    (mode = "listen" /\ ~Alive) =>
        (exitCode = 1 /\ exitCause = "loggedOut" /\ hist.lastClose = LoggedOut)

-----------------------------------------------------------------------------
(* Properties of the normalizer, checked under SpecNorm *)

MessageTypes ==
    {"text", "image", "video", "audio", "document", "sticker", "contact",
     "location", "reaction", "poll", "unknown"}

\* the type that belongs to a content field
FieldType(f) ==
    CASE f \in {"conversation", "extendedTextMessage"} -> "text"
      [] f = "imageMessage" -> "image"
      [] f = "videoMessage" -> "video"
      [] f = "audioMessage" -> "audio"
      [] f = "documentMessage" -> "document"
      [] f = "stickerMessage" -> "sticker"
      [] f \in {"contactMessage", "contactsArrayMessage"} -> "contact"
      [] f \in {"locationMessage", "liveLocationMessage"} -> "location"
      [] f = "reactionMessage" -> "reaction"
      [] f \in {"pollCreationMessage", "pollCreationMessageV3"} -> "poll"

\* positions in ContentFields of the fields present in m; a field is present
\* when it is set and is not the empty string
PresentFields(m) ==
    {i \in 1..Len(ContentFields) :
        /\ ContentFields[i] \in DOMAIN m
        /\ ContentFields[i] = "conversation" => m[ContentFields[i]] # ""}

\* the payload inside the view-once wrapper of m: that of the first wrapper
\* that holds one
WrappedPayload(m) ==
    LET held == {f \in ViewOnceFields \cap DOMAIN m : m[f].message # NoObj}
    IN IF held = {} THEN NoObj
       ELSE IF "viewOnceMessage" \in held THEN m["viewOnceMessage"].message
       ELSE m["viewOnceMessageV2"].message

\* the type of the first present content field in priority order; that of
\* the wrapped payload when only a wrapper is present; unknown otherwise
RECURSIVE TypeByPriority(_)
TypeByPriority(m) ==
    IF PresentFields(m) # {}
    THEN FieldType(ContentFields[CHOOSE i \in PresentFields(m) :
                                    \A j \in PresentFields(m) : i <= j])
    ELSE IF ViewOnceFields \cap DOMAIN m # {}
    THEN TypeByPriority(WrappedPayload(m))
    ELSE "unknown"

CallTs == hist.calls[1].messageTimestamp
RowTs == hist.results[1].timestamp

\* C16 as stated: The row's timestamp is `now` if ts is more than 24 hours
\* after now, and exactly ts if it is not (also in the past), for every
\* integer ts; a payload with no timestamp gets now.
C16_ClampEveryTimestamp ==
    (hist.target = "messageToRow" /\ hist.calls # <<>>) =>
        IF CallTs = NoNum THEN RowTs = now
        ELSE IF CallTs * 1000 - now > 24 * 60 * 60 * 1000 THEN RowTs = now
        ELSE RowTs = CallTs * 1000

\* C16: The row's timestamp is `now` if ts is more than 24 hours after now,
\* and exactly ts if it is not (also in the past), for every integer ts
\* other than 0; a payload with no timestamp or with timestamp 0 gets now.
C16_ClampNonZeroTimestamp ==
    (hist.target = "messageToRow" /\ hist.calls # <<>>) =>
        IF CallTs = NoNum \/ CallTs = 0 THEN RowTs = now
        ELSE IF CallTs * 1000 - now > 24 * 60 * 60 * 1000 THEN RowTs = now
        ELSE RowTs = CallTs * 1000

\* a timestamp exactly 24 hours after now is kept, to the second
C16_Witness ==
    /\ hist.target = "messageToRow" /\ hist.calls # <<>>
    /\ now = 1000000000 /\ CallTs = 1086400 /\ RowTs = 1086400000

-----------------------------------------------------------------------------
(* Properties of ensureChatId, checked under SpecData *)

\* C17: Every message row references a chat row that exists and whose jid is
\* the message's conversation key, in every reachable state.
C17_MessageHasItsChat ==
    \A m \in messages :
        \E c \in chats : c.id = m.chat_id /\ c.jid = m.remote_jid

\* a message was stored for a chat no chat entry was ever delivered for:
\* ensureChatId made the minimal chat row
C17_Witness ==
    /\ hist.seenChats = {} /\ hist.seenMsgs = {MsgText}
    /\ chats = {[id |-> 1, jid |-> LidJid, jid_pn |-> NULL, name |-> NULL,
                 is_group |-> FALSE]}
    /\ \E m \in messages : m.chat_id = 1 /\ m.remote_jid = LidJid

-----------------------------------------------------------------------------
(* Order of the writes of several batches, checked under SpecData *)

\* the store completes the write at the head of its queue in this step
WriteDoneStep ==
    /\ tasks # <<>> /\ tasks' # tasks
    /\ hist'.events = hist.events /\ hist'.fails = hist.fails

\* C18: The writes of one batch event all complete before a write of the
\* next batch event runs: when a write of a batch completes and the batch has
\* writes left, no write of another batch is in the store's queue before them.
C18_BatchesOneAtATime ==
    [][(/\ WriteDoneStep
        /\ Head(tasks).h # "lid"
        /\ Len(tasks') = Len(tasks)) =>
          \A i \in 2..Len(tasks) : tasks[i].h = "lid"]_vars

-----------------------------------------------------------------------------
(* The idle timer against persistence and reconnects, checked under Spec *)

\* the last write of a messaging-history.set handler completes in this step
BatchDoneStep ==
    /\ WriteDoneStep
    /\ Head(tasks).h = "history"
    /\ Len(tasks') < Len(tasks)

\* C19: When the persistence of a batch completes, the idle timer has a full
\* 30 seconds to run from then, and the run never becomes idle-complete
\* while writes of a batch are in flight.
C19_IdleAfterBatchCompletes ==
    /\ [][BatchDoneStep =>
            \A i \in 1..Len(timers') :
               timers'[i].kind = "idle" => timers'[i].due >= now + IDLE_TIMEOUT_MS]_vars
    /\ [](exitCause = "idle" => \A i \in 1..Len(tasks) : tasks[i].h # "history")

\* C20: The idle timer is not set before the first connection-open, and the
\* run becomes idle-complete only while the connection is open, not while
\* it is connecting after a restart-required close.
C20_IdleOnlyWhenOpen ==
    /\ (mode = "sync" /\ hist.lastOpenOrBatch = NoNum) =>
          (idleTimer = NoTimer /\ timers = <<>>)
    /\ exitCause = "idle" => conn = "open"

-----------------------------------------------------------------------------
(* A store write that fails in the middle of a batch, checked under SpecData *)

\* the store rejects the oldest outstanding write in this step
WriteFailsStep == hist'.fails = hist.fails + 1

\* the keys of the rows the three tables hold
StoredKeys(cs, ks, ms) ==
    <<{ChatKey(r) : r \in cs}, {ContactKey(r) : r \in ks}, {MessageKey(r) : r \in ms}>>

\* C21: A store write that fails ends its batch: the step undoes no row, the
\* handler of the batch leaves the queue of writes with the rows it had
\* still to write and nothing of it is queued again, and no step ever
\* removes a row that was written.
C21_FailureEndsBatch ==
    [][/\ WriteFailsStep =>
            /\ <<chats, contacts, messages>>' = <<chats, contacts, messages>>
            /\ tasks' = Tail(tasks)
       /\ \A i \in 1..3 :
            StoredKeys(chats, contacts, messages)[i]
               \subseteq StoredKeys(chats', contacts', messages')[i]]_vars

\* the only batch delivered wrote its chat row, then a write of it failed:
\* the chat row is still there, its message was never written, nothing is
\* queued and the handler never reached its end
C21_Witness ==
    /\ hist.events = 1 /\ hist.fails = 1
    /\ hist.seenMsgs # {} /\ hist.finished = {}
    /\ chats # {} /\ messages = {}
    /\ tasks = <<>>

-----------------------------------------------------------------------------
(* The chat id cache against the chats table, checked under SpecData *)

\* C22: Under every interleaving of the handlers, each entry of the chat id
\* cache maps its jid to the id of the one chat row the store holds for
\* that jid, and to the id of no other chat.
C22_CacheCoherent ==
    \A j \in DOMAIN chatIdCache :
       /\ ChatIdsOf(j) = {chatIdCache[j]}
       /\ \A c \in chats : c.id = chatIdCache[j] => c.jid = j

\* a handler's upsert of a jid has filled the cache while another handler,
\* which missed on the same jid before the store answered, still has its own
\* upsert of that jid in the queue
C22_Witness ==
    \E j \in DOMAIN chatIdCache :
       \E i \in 1..Len(tasks) :
          /\ tasks[i].q.op = "ensureChat"
          /\ tasks[i].q.row.jid = j

=============================================================================
